---- MODULE Spec2Model ----
(***************************************************************************)
(* A model of the mud_battle_bot duel engine: the battle resolver          *)
(* (engine.py), the two-party synchronizer (duel.py), the persisted battle *)
(* document (models.py, storage.py) and the chat handlers (bot.py).        *)
(***************************************************************************)
EXTENDS Integers, Sequences, FiniteSets, TLC

VARIABLES
    battle,     \* the BattleState of the room under study (models.py)
    log,        \* events of the BattleLog returned by the last advance_round
    result,     \* the SubmitActionResult of the last submit_action
    lastOp,     \* the operation that produced this state
    acked,      \* skill ordinal named in each participant's last acknowledgement
    live,       \* an uninterrupted generator run alongside the battle's token
    drawsOk,    \* the last operation's draws were those of the live generator
    dmg,        \* _apply_damage on its own: the call and what it returned
    repo,       \* bot: room -> the repository's cached BattleState, if any
    db,         \* bot: room -> the document save_battle persisted, if any
    lockHeld,   \* bot: room -> the task holding fight_locks[room] (0 = free)
    task,       \* bot: task -> [pc, seen], its place in action_cmd
    resolved    \* bot: room -> [acks, reports, born] of its current battle

vars == <<battle, log, result, lastOp, acked, live, drawsOk, dmg,
          repo, db, lockHeld, task, resolved>>

-----------------------------------------------------------------------------
(* Bounds of the model.  Hit points and magnitudes are scaled down from    *)
(* the catalog's hundreds to single digits; the arithmetic is unchanged.   *)

MaxHp == 6          \* stands for FighterState.max_hp
RngMod == 8         \* number of generator states
MaxRounds == 3      \* rounds explored on one battle
MaxShield == 4      \* shield points of the fighters _apply_damage is tried on
MaxDamage == 5      \* incoming damage _apply_damage is tried on
MaxBotRounds == 1   \* rounds explored per room by the chat handlers

None == "None"     \* an absent text value (skill key, winner, report)
NoneId == -1        \* an absent integer (seed, participant identity)
PLAYER == "player"  \* FighterState.name of battle.player
AI == "AI"          \* FighterState.name of battle.ai
DRAW == "draw"      \* the winner recorded for a double knock-out

BASIC_ATTACK_KEY == "basic_attack"

-----------------------------------------------------------------------------
(* The skill catalog: what load_skills returns, in insertion order.        *)

skill_order ==
    <<"basic_attack", "heavy_strike", "poison_dart", "silence", "guard">>

SkillKeys == {skill_order[i] : i \in 1..Len(skill_order)}

Skill(key, type, cd, weight, dmin, dmax, status, duration, value, chance, sv) ==
    [key |-> key, type |-> type, cd |-> cd, weight |-> weight,
     damage_min |-> dmin, damage_max |-> dmax, status |-> status,
     duration |-> duration, value |-> value, chance |-> chance,
     shield_value |-> sv]

\* chance is a percentage here (the source holds a float in [0,1])
skills ==
    [k \in SkillKeys |->
        CASE k = "basic_attack" ->
                Skill(k, "damage", 0, 0, 1, 2, None, 0, 0, 100, 0)
          [] k = "heavy_strike" ->
                Skill(k, "damage", 2, 3, 2, 4, None, 0, 0, 100, 0)
          [] k = "poison_dart" ->
                Skill(k, "apply_status", 3, 2, 0, 0, "poison", 2, 1, 75, 0)
          [] k = "silence" ->
                Skill(k, "apply_status", 3, 2, 0, 0, "silence", 2, 0, 75, 0)
          [] k = "guard" ->
                Skill(k, "add_shield", 3, 1, 0, 0, None, 2, 0, 100, 3)]

skill_key_to_number(skill_key) ==
    CHOOSE i \in 1..Len(skill_order) : skill_order[i] = skill_key

\* "invalid" stands for the ValueError raised on an out-of-range number
skill_number_to_key(skill_no) ==
    IF skill_no < 1 \/ skill_no > Len(skill_order)
    THEN "invalid"
    ELSE skill_order[skill_no]

-----------------------------------------------------------------------------
(* The generator.  A random.Random object is [s, tr]: its internal state   *)
(* and the outputs it has produced since it was obtained.                  *)

RngStates == 0..(RngMod - 1)

RngStep(s) == (5 * s + 3) % RngMod

\* random.Random(seed) for an integer seed
RngSeed(seed) == (3 * seed + 1) % RngMod

\* rng.random(): one output u, standing for the float u / RngMod
RngDraw(rng) ==
    LET s2 == RngStep(rng.s)
    IN  [u |-> s2, rng |-> [s |-> s2, tr |-> Append(rng.tr, s2)]]

\* pickle + base64 of rng.getstate(): a two-digit base-4 text
EncodeState(s) == <<s \div 4, s % 4>>

\* pickle.loads(base64.b64decode(token)) followed by rng.setstate
DecodeState(token) == 4 * token[1] + token[2]

_sync_rng_state(b, rng) ==
    [b EXCEPT !.rng_state_b64 = EncodeState(rng.s)]

\* get_rng: [rng, battle]; with no token the battle's seed seeds a new
\* generator whose state is captured at once.  A None seed is only ever
\* used at creation, where the state is drawn from the system's entropy.
get_rng(b) ==
    IF b.rng_state_b64 # <<>>
    THEN [rng |-> [s |-> DecodeState(b.rng_state_b64), tr |-> <<>>], battle |-> b]
    ELSE LET rng == [s |-> RngSeed(IF b.seed = NoneId THEN 0 ELSE b.seed), tr |-> <<>>]
         IN  [rng |-> rng, battle |-> _sync_rng_state(b, rng)]

-----------------------------------------------------------------------------
(* models.py: events, statuses, fighters.                                  *)

Event(type, actor, target, detail) ==
    [type |-> type, actor |-> actor, target |-> target, detail |-> detail]

StatusEffect(name, duration, value) ==
    [name |-> name, duration |-> duration, value |-> value]

FighterState(name) ==
    [name |-> name, max_hp |-> MaxHp, hp |-> MaxHp, shield |-> 0,
     statuses |-> <<>>, cooldowns |-> [k \in {} |-> 0]]

Min(a, b) == IF a <= b THEN a ELSE b
Max(a, b) == IF a >= b THEN a ELSE b

\* dict.get(key, 0) on a cooldown mapping
CdGet(cooldowns, key) ==
    IF key \in DOMAIN cooldowns THEN cooldowns[key] ELSE 0

-----------------------------------------------------------------------------
(* The status handlers (STATUS_HANDLERS and the StatusHandler default).    *)

\* (mutant) an expired Shield leaves the shield points where they are
ShieldExpiresKeepingPoints(fighter, status, events) ==
    [keep |-> status.duration > 0, fighter |-> fighter, events |-> events]

\* on_turn_start: [keep, fighter, events]; only Shield overrides it
ShieldOnTurnStart(fighter, status, events) ==
    IF status.duration <= 0
    THEN IF fighter.shield > 0
         THEN [keep |-> FALSE,
               fighter |-> [fighter EXCEPT !.shield = 0],
               events |-> Append(events, Event("shield_expire", fighter.name, None, <<>>))]
         ELSE [keep |-> FALSE, fighter |-> fighter, events |-> events]
    ELSE [keep |-> TRUE, fighter |-> fighter, events |-> events]

on_turn_start(fighter, status, events) ==
    IF status.name = "shield"
    THEN ShieldOnTurnStart(fighter, status, events)
    ELSE [keep |-> TRUE, fighter |-> fighter, events |-> events]

\* on_before_action: the forced skill key, or None; only Silence overrides it
on_before_action(fighter, status) ==
    IF status.name = "silence" THEN BASIC_ATTACK_KEY ELSE None

\* (mutant) the shield absorbs the whole damage, whatever points it has
ShieldAbsorbsAll(fighter, incoming_damage, status) ==
    [fighter |-> [fighter EXCEPT !.shield = @ - incoming_damage],
     remaining |-> 0]

\* on_damage_taken: [fighter, remaining]; only Shield overrides it
ShieldOnDamageTaken(fighter, incoming_damage, status) ==
    LET absorbed == Min(fighter.shield, incoming_damage)
    IN  [fighter |-> [fighter EXCEPT !.shield = @ - absorbed],
         remaining |-> incoming_damage - absorbed]

on_damage_taken(fighter, incoming_damage, status) ==
    IF status.name = "shield"
    THEN ShieldOnDamageTaken(fighter, incoming_damage, status)
    ELSE [fighter |-> fighter, remaining |-> incoming_damage]

\* (mutant) the PoisonHandler override is missing: the default contributes 0
on_turn_end_default(fighter, status) == 0

\* on_turn_end: the damage over time contributed; only Poison overrides it
on_turn_end(fighter, status) ==
    IF status.name = "poison" THEN status.value ELSE 0

\* STATUS_HANDLERS.get(name) is None for a name outside the table
HasHandler(name) == name \in {"poison", "silence", "shield"}

-----------------------------------------------------------------------------
(* BattleEngine: damage, statuses, turn start.                             *)

RECURSIVE DamageLoop(_, _, _)
DamageLoop(fighter, remaining, i) ==
    IF i > Len(fighter.statuses)
    THEN [fighter |-> fighter, remaining |-> remaining]
    ELSE IF ~HasHandler(fighter.statuses[i].name)
         THEN DamageLoop(fighter, remaining, i + 1)
         ELSE LET r == on_damage_taken(fighter, remaining, fighter.statuses[i])
              IN  DamageLoop(r.fighter, r.remaining, i + 1)

\* (mutant) the hit points are not floored at 0
DamageAppliedUnclamped(before_shield, r) ==
    [fighter |-> [r.fighter EXCEPT !.hp = @ - Max(0, r.remaining)],
     hp_loss |-> Max(0, r.remaining),
     absorbed |-> before_shield - r.fighter.shield]

\* the tail of _apply_damage, after the handlers have run
DamageApplied(before_shield, r) ==
    [fighter |-> [r.fighter EXCEPT !.hp = Max(0, @ - Max(0, r.remaining))],
     hp_loss |-> Max(0, r.remaining),
     absorbed |-> before_shield - r.fighter.shield]

\* _apply_damage: [fighter, hp_loss, absorbed]
_apply_damage(fighter, damage) ==
    DamageApplied(fighter.shield, DamageLoop(fighter, damage, 1))

\* (mutant) a status is attached beside an instance of the same name
_apply_status_stacking(fighter, name, duration, value) ==
    [fighter EXCEPT !.statuses = Append(@, StatusEffect(name, duration, value))]

_apply_status(fighter, name, duration, value) ==
    IF \E i \in 1..Len(fighter.statuses) : fighter.statuses[i].name = name
    THEN LET idx == CHOOSE i \in 1..Len(fighter.statuses) :
                        /\ fighter.statuses[i].name = name
                        /\ \A j \in 1..(i - 1) : fighter.statuses[j].name # name
         IN  [fighter EXCEPT !.statuses[idx] = StatusEffect(name, duration, value)]
    ELSE [fighter EXCEPT !.statuses = Append(@, StatusEffect(name, duration, value))]

\* the status loop of _on_turn_start: [fighter, updated, events]
RECURSIVE TickLoop(_, _, _, _)
TickLoop(fighter, updated, events, i) ==
    IF i > Len(fighter.statuses)
    THEN [fighter |-> fighter, updated |-> updated, events |-> events]
    ELSE LET status == fighter.statuses[i]
             dec_status == [status EXCEPT !.duration = @ - 1]
             r == on_turn_start(fighter, dec_status, events)
         IN  TickLoop(r.fighter,
                      IF r.keep /\ dec_status.duration > 0
                      THEN Append(updated, dec_status) ELSE updated,
                      r.events, i + 1)

\* _on_turn_start: [fighter, events]
_on_turn_start(fighter, events) ==
    LET cooled == [fighter EXCEPT !.cooldowns =
                      [k \in DOMAIN @ |-> IF @[k] > 0 THEN @[k] - 1 ELSE @[k]]]
        r == TickLoop(cooled, <<>>, events, 1)
    IN  [fighter |-> [r.fighter EXCEPT !.statuses = r.updated],
         events |-> r.events]

\* _on_turn_end_dot: [fighter, events]; DotTotal is its summing loop
RECURSIVE DotTotal(_, _)
DotTotal(fighter, i) ==
    IF i > Len(fighter.statuses) THEN 0
    ELSE (IF HasHandler(fighter.statuses[i].name)
          THEN on_turn_end(fighter, fighter.statuses[i]) ELSE 0)
         + DotTotal(fighter, i + 1)

DotApplied(fighter, dot_total, r, events) ==
    [fighter |-> r.fighter,
     events |-> Append(events,
         Event("dot", fighter.name, None,
               [dot |-> dot_total, hp_loss |-> r.hp_loss,
                shield_absorb |-> r.absorbed]))]

DotWith(fighter, dot_total, events) ==
    IF dot_total <= 0
    THEN [fighter |-> fighter, events |-> events]
    ELSE DotApplied(fighter, dot_total, _apply_damage(fighter, dot_total), events)

_on_turn_end_dot(fighter, events) ==
    DotWith(fighter, DotTotal(fighter, 1), events)

-----------------------------------------------------------------------------
(* BattleEngine: skill choice, skill execution, one fighter's action.      *)
(* A function whose later statements use an earlier result is written as a *)
(* chain of operators, one per statement group, each handing its result to *)
(* the next.                                                               *)

RECURSIVE SumWeights(_, _)
SumWeights(cands, n) ==
    IF n = 0 THEN 0 ELSE SumWeights(cands, n - 1) + skills[cands[n]].weight

\* rng.choices(candidates, weights, k=1)[0]: bisect of u/RngMod * total in
\* the cumulative weights, the index capped at the last candidate
Choices(cands, u) ==
    LET total == SumWeights(cands, Len(cands))
        hits == {i \in 1..Len(cands) : SumWeights(cands, i) * RngMod > u * total}
    IN  IF hits = {} THEN cands[Len(cands)]
        ELSE cands[CHOOSE i \in hits : \A j \in hits : i <= j]

\* (mutant) a skill on cooldown is a candidate too
CandidatesAnyCooldown(fighter) ==
    SelectSeq(skill_order, LAMBDA k : k # BASIC_ATTACK_KEY)

\* the candidates of _choose_skill: non-basic skills off cooldown, in order
Candidates(fighter) ==
    SelectSeq(skill_order,
        LAMBDA k : k # BASIC_ATTACK_KEY /\ CdGet(fighter.cooldowns, k) = 0)

ChooseAmong(candidates, d) ==
    [key |-> Choices(candidates, d.u), rng |-> d.rng]

\* _choose_skill: [key, rng]
_choose_skill(fighter, rng) ==
    IF Candidates(fighter) = <<>>
    THEN [key |-> BASIC_ATTACK_KEY, rng |-> rng]
    ELSE ChooseAmong(Candidates(fighter), RngDraw(rng))

\* the Damage branch of _execute_skill, after rng.randint and _apply_damage
\* (mutant) the blow costs the attacker the same hit points
DamageDealtRecoil(attacker, defender, damage, r, rng, events) ==
    [attacker |-> [attacker EXCEPT !.hp = Max(0, @ - damage)],
     defender |-> r.fighter, rng |-> rng,
     events |-> Append(events,
         Event("damage", attacker.name, defender.name,
               [damage |-> damage, hp_loss |-> r.hp_loss,
                shield_absorb |-> r.absorbed]))]

DamageDealt(attacker, defender, damage, r, rng, events) ==
    [attacker |-> attacker, defender |-> r.fighter, rng |-> rng,
     events |-> Append(events,
         Event("damage", attacker.name, defender.name,
               [damage |-> damage, hp_loss |-> r.hp_loss,
                shield_absorb |-> r.absorbed]))]

\* rng.randint(damage_min, damage_max) from the output u
RandInt(lo, hi, u) == lo + (u % (hi - lo + 1))

ExecDamage(attacker, defender, skill, d, events) ==
    DamageDealt(attacker, defender,
                RandInt(skill.damage_min, skill.damage_max, d.u),
                _apply_damage(defender,
                              RandInt(skill.damage_min, skill.damage_max, d.u)),
                d.rng, events)

\* the ApplyStatus branch: rng.random() <= skill.chance
ExecApplyStatus(attacker, defender, skill, d, events) ==
    IF d.u * 100 <= skill.chance * RngMod
    THEN [attacker |-> attacker,
          defender |-> _apply_status(defender, skill.status,
                                     skill.duration, skill.value),
          rng |-> d.rng,
          events |-> Append(events,
              Event("status_apply", attacker.name, defender.name,
                    [status |-> skill.status, duration |-> skill.duration,
                     value |-> skill.value]))]
    ELSE [attacker |-> attacker, defender |-> defender, rng |-> d.rng,
          events |-> Append(events,
              Event("miss", attacker.name, defender.name, <<>>))]

\* the AddShield branch
\* (mutant) the shield points are granted without the Shield status
ExecAddShieldNoStatus(attacker, defender, skill, rng, events) ==
    [attacker |-> [attacker EXCEPT !.shield = @ + skill.shield_value],
     defender |-> defender, rng |-> rng,
     events |-> Append(events,
         Event("shield_gain", attacker.name, None,
               [shield_value |-> skill.shield_value,
                duration |-> skill.duration]))]

ExecAddShield(attacker, defender, skill, rng, events) ==
    [attacker |-> _apply_status(
                      [attacker EXCEPT !.shield = @ + skill.shield_value],
                      "shield", skill.duration, 0),
     defender |-> defender, rng |-> rng,
     events |-> Append(events,
         Event("shield_gain", attacker.name, None,
               [shield_value |-> skill.shield_value,
                duration |-> skill.duration]))]

\* _execute_skill: [attacker, defender, rng, events]
_execute_skill(attacker, defender, skill, rng, events) ==
    CASE skill.type = "damage" ->
            ExecDamage(attacker, defender, skill, RngDraw(rng), events)
      [] skill.type = "apply_status" ->
            ExecApplyStatus(attacker, defender, skill, RngDraw(rng), events)
      [] skill.type = "add_shield" ->
            ExecAddShield(attacker, defender, skill, rng, events)

\* the override loop of _take_action: the first status that forces a skill,
\* as a sequence of at most one status
Override(attacker) ==
    LET forcing == {i \in 1..Len(attacker.statuses) :
                        on_before_action(attacker, attacker.statuses[i]) # None}
    IN  IF forcing = {} THEN <<>>
        ELSE <<attacker.statuses[CHOOSE i \in forcing : \A j \in forcing : i <= j]>>

\* (mutant) the override does not replace the caller's forced skill
SelectedKeyForcedWins(attacker, ov, forced_skill_key) ==
    IF forced_skill_key # None THEN forced_skill_key
    ELSE IF ov = <<>> THEN forced_skill_key
    ELSE on_before_action(attacker, ov[1])

\* selected_key after the override loop
SelectedKey(attacker, ov, forced_skill_key) ==
    IF ov = <<>> THEN forced_skill_key ELSE on_before_action(attacker, ov[1])

\* events after the override loop
OverrideEvents(attacker, ov, events) ==
    IF ov = <<>> THEN events
    ELSE Append(events, Event("forced_basic_attack", attacker.name, None,
                              [reason |-> ov[1].name]))

\* (mutant) a known selected skill is used whatever its cooldown
PickSkillAnyCooldown(attacker, rng, selected_key) ==
    IF selected_key # None /\ selected_key \in SkillKeys
    THEN [key |-> selected_key, rng |-> rng]
    ELSE _choose_skill(attacker, rng)

\* the skill of _take_action: [key, rng]
PickSkill(attacker, rng, selected_key) ==
    IF /\ selected_key # None
       /\ selected_key \in SkillKeys
       /\ CdGet(attacker.cooldowns, selected_key) = 0
    THEN [key |-> selected_key, rng |-> rng]
    ELSE IF selected_key = BASIC_ATTACK_KEY
         THEN [key |-> BASIC_ATTACK_KEY, rng |-> rng]
         ELSE _choose_skill(attacker, rng)

\* (mutant) using a skill leaves its cooldown alone
SetCooldownNever(skill, x) == x

\* the cooldown set after use
SetCooldown(skill, x) ==
    [attacker |-> IF skill.cd > 0 /\ skill.key # BASIC_ATTACK_KEY
                  THEN [x.attacker EXCEPT !.cooldowns[skill.key] = skill.cd]
                  ELSE x.attacker,
     defender |-> x.defender, rng |-> x.rng, events |-> x.events]

UseSkill(attacker, defender, pick, events) ==
    SetCooldown(skills[pick.key],
        _execute_skill(attacker, defender, skills[pick.key], pick.rng,
            Append(events, Event("skill_use", attacker.name, None,
                                 [skill_key |-> pick.key]))))

TakeActionWith(attacker, defender, rng, events, forced_skill_key, ov) ==
    UseSkill(attacker, defender,
             PickSkill(attacker, rng, SelectedKey(attacker, ov, forced_skill_key)),
             OverrideEvents(attacker, ov, events))

\* _take_action: [attacker, defender, rng, events]
_take_action(attacker, defender, rng, events, forced_skill_key) ==
    TakeActionWith(attacker, defender, rng, events, forced_skill_key,
                   Override(attacker))

\* (mutant) a double knock-out is not told apart
WinnerOfNoDraw(p_dead, a_dead) == IF a_dead THEN PLAYER ELSE AI

\* the winner _check_winner records
WinnerOf(p_dead, a_dead) ==
    IF p_dead /\ a_dead THEN DRAW ELSE IF a_dead THEN PLAYER ELSE AI

\* _check_winner: [over, battle, events]
_check_winner(b, events) ==
    IF ~(b.player.hp <= 0) /\ ~(b.ai.hp <= 0)
    THEN [over |-> FALSE, battle |-> b, events |-> events]
    ELSE [over |-> TRUE,
          battle |-> [b EXCEPT !.is_over = TRUE,
                               !.winner = WinnerOf(b.player.hp <= 0, b.ai.hp <= 0)],
          events |-> Append(events,
              Event("battle_over", None, None,
                    [winner |-> WinnerOf(b.player.hp <= 0, b.ai.hp <= 0)]))]

-----------------------------------------------------------------------------
(* BattleEngine: creation, seeding, preview pick.                          *)

NewFighter(name) ==
    [FighterState(name) EXCEPT !.cooldowns = [k \in SkillKeys |-> 0]]

\* create_new_battle; entropy is the state random.Random(None) starts in
create_new_battle(user_id, seed, entropy) ==
    _sync_rng_state(
        [user_id |-> user_id, player |-> NewFighter(PLAYER), ai |-> NewFighter(AI),
         round_no |-> 0, is_over |-> FALSE, winner |-> None,
         seed |-> seed, rng_state_b64 |-> <<>>, debug_mode |-> FALSE,
         player_a_id |-> NoneId, player_b_id |-> NoneId,
         pending_action |-> [u \in {} |-> 0]],
        [s |-> IF seed = NoneId THEN entropy ELSE RngSeed(seed), tr |-> <<>>])

\* (mutant) the seed is stored but the generator is not re-seeded
set_seed_keeps_stream(b, seed) == [b EXCEPT !.seed = seed]

set_seed(b, seed) ==
    _sync_rng_state([b EXCEPT !.seed = seed], [s |-> RngSeed(seed), tr |-> <<>>])

\* (mutant) the preview pick does not capture the generator's state
PickLockedNoSync(b, chosen) ==
    [battle |-> b, skill_no |-> skill_key_to_number(chosen.key),
     tr |-> chosen.rng.tr]

PickLocked(b, chosen) ==
    [battle |-> _sync_rng_state(b, chosen.rng),
     skill_no |-> skill_key_to_number(chosen.key),
     tr |-> chosen.rng.tr]

PickWith(g, fighter) == PickLocked(g.battle, _choose_skill(fighter, g.rng))

\* pick_locked_skill_number: [battle, skill_no, tr]
pick_locked_skill_number(b, fighter) == PickWith(get_rng(b), fighter)

-----------------------------------------------------------------------------
(* BattleEngine.advance_round: [battle, round_no, events, tr], round_no    *)
(* and events being the BattleLog returned and tr the outputs drawn.       *)

\* every return of a resolved round: capture the generator, hand back the log
RoundReturn(b, events, rng) ==
    [battle |-> _sync_rng_state(b, rng), round_no |-> b.round_no,
     events |-> events, tr |-> rng.tr]

\* the final _check_winner
FinalCheck(w, rng) == RoundReturn(w.battle, w.events, rng)

DotAi(b, dotP, dotA, rng) ==
    FinalCheck(_check_winner([b EXCEPT !.player = dotP.fighter,
                                       !.ai = dotA.fighter], dotA.events), rng)

DotPlayer(b, dotP, rng) ==
    DotAi(b, dotP, _on_turn_end_dot(b.ai, dotP.events), rng)

\* (mutant) the round goes on to the end-of-round phase whatever the check says
CheckAfterAiNoReturn(w, rng) ==
    DotPlayer(w.battle, _on_turn_end_dot(w.battle.player, w.events), rng)

\* after the ai's action: win check, then the end-of-round phase
CheckAfterAi(w, rng) ==
    IF w.over
    THEN RoundReturn(w.battle, w.events, rng)
    ELSE DotPlayer(w.battle, _on_turn_end_dot(w.battle.player, w.events), rng)

AiActed(b, act) ==
    CheckAfterAi(_check_winner([b EXCEPT !.ai = act.attacker,
                                         !.player = act.defender], act.events),
                 act.rng)

\* after the player's action: win check, then the ai's action
CheckAfterPlayer(w, rng, forced_skill_ai) ==
    IF w.over
    THEN RoundReturn(w.battle, w.events, rng)
    ELSE AiActed(w.battle,
                 _take_action(w.battle.ai, w.battle.player, rng, w.events,
                              forced_skill_ai))

PlayerActed(b, act, forced_skill_ai) ==
    CheckAfterPlayer(_check_winner([b EXCEPT !.player = act.attacker,
                                             !.ai = act.defender], act.events),
                     act.rng, forced_skill_ai)

TurnStarted(b, tsP, tsA, rng, forced_skill_player, forced_skill_ai) ==
    PlayerActed(b, _take_action(tsP.fighter, tsA.fighter, rng, tsA.events,
                                forced_skill_player),
                forced_skill_ai)

TurnStartAi(b, tsP, rng, forced_skill_player, forced_skill_ai) ==
    TurnStarted(b, tsP, _on_turn_start(b.ai, tsP.events), rng,
                forced_skill_player, forced_skill_ai)

RoundStarted(b, rng, forced_skill_player, forced_skill_ai) ==
    TurnStartAi(b,
        _on_turn_start(b.player,
            <<Event("round_start", None, None, [round |-> b.round_no])>>),
        rng, forced_skill_player, forced_skill_ai)

\* (mutant) the round counter is not advanced
RoundWithSameNumber(g, forced_skill_player, forced_skill_ai) ==
    RoundStarted(g.battle, g.rng, forced_skill_player, forced_skill_ai)

RoundWith(g, forced_skill_player, forced_skill_ai) ==
    RoundStarted([g.battle EXCEPT !.round_no = @ + 1], g.rng,
                 forced_skill_player, forced_skill_ai)

\* (mutant) the terminal check is missing
advance_round_unchecked(b, forced_skill_player, forced_skill_ai) ==
    RoundWith(get_rng(b), forced_skill_player, forced_skill_ai)

advance_round(b, forced_skill_player, forced_skill_ai) ==
    IF b.is_over
    THEN [battle |-> b, round_no |-> b.round_no,
          events |-> <<Event("already_over", None, None, <<>>)>>, tr |-> <<>>]
    ELSE RoundWith(get_rng(b), forced_skill_player, forced_skill_ai)

-----------------------------------------------------------------------------
(* DuelService.submit_action: [battle, message, skill_no, round_report,    *)
(* events, tr].  message is "room_full", "already_acted" or "ack" (the     *)
(* acknowledgement naming skill_no); round_report is None or "report",     *)
(* the rendering of the BattleLog whose events are given beside it.        *)

Pending(b, user_id) == user_id \in DOMAIN b.pending_action

\* the binding rules: the battle after them
Bind(b, user_id) ==
    IF b.player_a_id = NoneId
    THEN [b EXCEPT !.player_a_id = user_id]
    ELSE IF b.player_a_id # user_id /\ b.player_b_id = NoneId
         THEN [b EXCEPT !.player_b_id = user_id]
         ELSE b

\* (mutant) the third branch of the binding rules is missing
RoomNeverFull(b, user_id) == FALSE

\* the third branch of the binding rules is taken and rejects
RoomFull(b, user_id) ==
    /\ b.player_a_id # NoneId
    /\ ~(b.player_a_id # user_id /\ b.player_b_id = NoneId)
    /\ user_id \notin {b.player_a_id, b.player_b_id}

Ack(b, pick) ==
    [battle |-> b, message |-> "ack", skill_no |-> pick.skill_no,
     round_report |-> None, events |-> <<>>, tr |-> pick.tr]

\* (mutant) the pending map is not cleared after the resolution
ResolvedKeepsPending(r, pick) ==
    [battle |-> r.battle,
     message |-> "ack", skill_no |-> pick.skill_no,
     round_report |-> "report", events |-> r.events,
     tr |-> pick.tr \o r.tr]

Resolved(r, pick) ==
    [battle |-> [r.battle EXCEPT !.pending_action = [u \in {} |-> 0]],
     message |-> "ack", skill_no |-> pick.skill_no,
     round_report |-> "report", events |-> r.events,
     tr |-> pick.tr \o r.tr]

\* (mutant) the round is resolved as soon as A's entry is present
RecordedEager(b, pick) ==
    IF b.player_a_id = NoneId \/ ~Pending(b, b.player_a_id)
    THEN Ack(b, pick)
    ELSE Resolved(advance_round(b,
                      skill_number_to_key(b.pending_action[b.player_a_id]),
                      None),
                  pick)

Recorded(b, pick) ==
    IF b.player_a_id = NoneId \/ b.player_b_id = NoneId
    THEN Ack(b, pick)
    ELSE IF ~Pending(b, b.player_a_id) \/ ~Pending(b, b.player_b_id)
    THEN Ack(b, pick)
    ELSE Resolved(advance_round(b,
                      skill_number_to_key(b.pending_action[b.player_a_id]),
                      skill_number_to_key(b.pending_action[b.player_b_id])),
                  pick)

Picked(pick, user_id) ==
    Recorded([pick.battle EXCEPT !.pending_action =
                 [u \in DOMAIN @ \cup {user_id} |->
                     IF u = user_id THEN pick.skill_no ELSE @[u]]],
             pick)

\* (mutant) a repeated submission draws and records again
BoundRedraw(b, user_id) ==
    Picked(pick_locked_skill_number(b,
               IF user_id = b.player_a_id THEN b.player ELSE b.ai),
           user_id)

Bound(b, user_id) ==
    IF Pending(b, user_id)
    THEN [battle |-> b, message |-> "already_acted", skill_no |-> 0,
          round_report |-> None, events |-> <<>>, tr |-> <<>>]
    ELSE Picked(pick_locked_skill_number(b,
                    IF user_id = b.player_a_id THEN b.player ELSE b.ai),
                user_id)

submit_action(b, user_id) ==
    IF RoomFull(b, user_id)
    THEN [battle |-> b, message |-> "room_full", skill_no |-> 0,
          round_report |-> None, events |-> <<>>, tr |-> <<>>]
    ELSE Bound(Bind(b, user_id), user_id)

-----------------------------------------------------------------------------
(* models.py / storage.py: the persisted document.  json.dumps writes the  *)
(* pending map's integer keys as text; from_dict parses them back.         *)

\* str(k) and int(text) for a non-negative integer: its decimal digits
RECURSIVE Digits(_)
Digits(n) == IF n < 10 THEN <<n>> ELSE Append(Digits(n \div 10), n % 10)

RECURSIVE ParseInt(_, _)
ParseInt(text, n) ==
    IF n = 0 THEN 0 ELSE 10 * ParseInt(text, n - 1) + text[n]

to_dict(b) ==
    [b EXCEPT !.pending_action =
        {<<Digits(u), b.pending_action[u]>> : u \in DOMAIN b.pending_action}]

from_dict(data) ==
    [data EXCEPT !.pending_action =
        [u \in {ParseInt(e[1], Len(e[1])) : e \in data.pending_action} |->
            (CHOOSE e \in data.pending_action :
                ParseInt(e[1], Len(e[1])) = u)[2]]]

-----------------------------------------------------------------------------
(* The duel on one room's battle: the operations a caller can apply.       *)

Users == {1, 2, 3}
Seeds == {0, 1}
ForcedKeys == SkillKeys \cup {None, "unknown"}
\* the forced skills of the direct advance_round calls explored
ForcedPairs == {<<None, None>>, <<"heavy_strike", "silence">>}

NoResult == [message |-> None, skill_no |-> 0, round_report |-> None]
NoPending == [u \in {} |-> 0]

RECURSIVE RngOutputs(_, _)
\* the next n outputs of a generator in state s
RngOutputs(s, n) ==
    IF n = 0 THEN <<>> ELSE <<RngStep(s)>> \o RngOutputs(RngStep(s), n - 1)

RECURSIVE RngSkip(_, _)
RngSkip(s, n) == IF n = 0 THEN s ELSE RngSkip(RngStep(s), n - 1)

\* the live generator consumes the outputs tr of an operation
LiveAfter(tr) ==
    /\ live' = RngSkip(live, Len(tr))
    /\ drawsOk' = (tr = RngOutputs(live, Len(tr)))

BotVars == <<repo, db, lockHeld, task, resolved>>

Init ==
    /\ \E seed \in Seeds \cup {NoneId}, entropy \in RngStates :
          /\ seed # NoneId => entropy = 0
          /\ battle = create_new_battle(1001, seed, entropy)
    /\ log = <<>>
    /\ result = NoResult
    /\ lastOp = "create"
    /\ acked = NoPending
    /\ live = DecodeState(battle.rng_state_b64)
    /\ drawsOk = TRUE
    /\ dmg = None
    /\ repo = None /\ db = None /\ lockHeld = None /\ task = None
    /\ resolved = None

\* Identities are only ever compared for equality, so a caller new to the
\* battle is taken to be the smallest identity not bound to it.
Callers ==
    LET known == {battle.player_a_id, battle.player_b_id} \cap Users
    IN  known \cup {u \in Users \ known : \A v \in Users \ known : u <= v}

\* duel.submit_action(battle, user_id, mention)
SubmitAction(u) ==
    /\ battle.round_no < MaxRounds
    /\ u \in Callers
    /\ LET r == submit_action(battle, u)
       IN  /\ battle' = r.battle
           /\ result' = [message |-> r.message, skill_no |-> r.skill_no,
                         round_report |-> r.round_report]
           /\ log' = r.events
           /\ acked' = IF r.message # "ack" THEN acked
                       ELSE IF battle.pending_action = NoPending
                            THEN [x \in {u} |-> r.skill_no]
                            ELSE [x \in DOMAIN acked \cup {u} |->
                                     IF x = u THEN r.skill_no ELSE acked[x]]
           /\ LiveAfter(r.tr)
    /\ lastOp' = "submit"
    /\ UNCHANGED <<dmg, BotVars>>

\* engine.advance_round(battle, forced_skill_player, forced_skill_ai)
AdvanceRound(fp, fa) ==
    /\ battle.round_no < MaxRounds
    /\ LET r == advance_round(battle, fp, fa)
       IN  /\ battle' = r.battle
           /\ log' = r.events
           /\ LiveAfter(r.tr)
    /\ result' = NoResult
    /\ lastOp' = "advance"
    /\ UNCHANGED <<acked, dmg, BotVars>>

\* seed_cmd with an integer argument: engine.set_seed, then the debug flag.
\* The command is explored once per battle, while the flag is still unset.
SeedCmd(seed) ==
    /\ battle.round_no < MaxRounds
    /\ ~battle.debug_mode
    /\ battle' = [set_seed(battle, seed) EXCEPT !.debug_mode = TRUE]
    /\ live' = RngSeed(seed)
    /\ drawsOk' = TRUE
    /\ log' = <<>>
    /\ result' = NoResult
    /\ lastOp' = "set_seed"
    /\ UNCHANGED <<acked, dmg, BotVars>>

\* save_battle followed by a load_battle that misses the cache
Reload ==
    /\ battle' = from_dict(to_dict(battle))
    /\ UNCHANGED <<log, result, lastOp, acked, live, drawsOk, dmg, BotVars>>

Next ==
    \/ \E u \in Users : SubmitAction(u)
    \/ \E f \in ForcedPairs : AdvanceRound(f[1], f[2])
    \/ \E seed \in Seeds : SeedCmd(seed)
    \/ Reload

Spec == Init /\ [][Next]_vars

\* The duel as the chat handlers drive it: rounds are resolved by
\* submit_action only.
NextDuel ==
    \/ \E u \in Users : SubmitAction(u)
    \/ \E seed \in Seeds : SeedCmd(seed)
    \/ Reload

SpecDuel == Init /\ [][NextDuel]_vars

-----------------------------------------------------------------------------
(* _apply_damage on its own, on fighters drawn from bounded sets.          *)

\* attached statuses the damage is tried against, in attachment order
StatusLists ==
    {<<>>,
     <<StatusEffect("shield", 2, 0)>>,
     <<StatusEffect("poison", 2, 1), StatusEffect("shield", 1, 0)>>,
     <<StatusEffect("shield", 2, 0), StatusEffect("silence", 2, 0)>>,
     <<StatusEffect("silence", 1, 0)>>}

HasStatus(statuses, name) ==
    \E i \in 1..Len(statuses) : statuses[i].name = name

\* shield points are only ever granted together with a shield status
DamagedFighters ==
    {[NewFighter(PLAYER) EXCEPT !.hp = hp, !.shield = sh, !.statuses = st] :
        hp \in 1..MaxHp, sh \in 0..MaxShield,
        st \in {x \in StatusLists : HasStatus(x, "shield")}}
    \cup
    {[NewFighter(PLAYER) EXCEPT !.hp = hp, !.statuses = st] :
        hp \in 1..MaxHp, st \in StatusLists}

InitDamage ==
    /\ \E f \in DamagedFighters, d \in 0..MaxDamage :
          dmg = [stage |-> "call", before |-> f, damage |-> d,
                 fighter |-> f, hp_loss |-> 0, absorbed |-> 0]
    /\ battle = None /\ log = <<>> /\ result = NoResult /\ lastOp = "create"
    /\ acked = NoPending /\ live = 0 /\ drawsOk = TRUE
    /\ repo = None /\ db = None /\ lockHeld = None /\ task = None
    /\ resolved = None

\* hp_loss, absorbed = engine._apply_damage(fighter, damage)
ApplyDamage ==
    /\ dmg.stage = "call"
    /\ LET r == _apply_damage(dmg.before, dmg.damage)
       IN  dmg' = [dmg EXCEPT !.stage = "done", !.fighter = r.fighter,
                              !.hp_loss = r.hp_loss, !.absorbed = r.absorbed]
    /\ UNCHANGED <<battle, log, result, lastOp, acked, live, drawsOk, BotVars>>

NextDamage == ApplyDamage

SpecDamage == InitDamage /\ [][NextDamage]_vars

ShieldFirst(before, d, out) ==
    /\ out.absorbed = Min(before.shield, d)
    /\ out.hp_loss = d - Min(before.shield, d)
    /\ out.fighter.shield = before.shield - Min(before.shield, d)
    /\ out.fighter.hp = Max(0, before.hp - out.hp_loss)
    /\ d > before.shield =>
          /\ out.absorbed = before.shield
          /\ out.hp_loss = d - before.shield
          /\ out.fighter.shield = 0
    /\ d <= before.shield =>
          /\ out.fighter.hp = before.hp
          /\ out.fighter.shield = before.shield - d

\* C9: on a fighter with shield S and a Shield status, damage D takes
\* min(S, D) from the shield first: for D > S the absorbed amount is S, the
\* hit-point loss D - S and the shield 0; for D <= S the hit points are
\* unchanged and the shield is S - D.
C9_ShieldAbsorbsFirst ==
    (dmg.stage = "done" /\ HasStatus(dmg.before.statuses, "shield")) =>
        ShieldFirst(dmg.before, dmg.damage, dmg)

C9_Witness ==
    /\ dmg.stage = "done" /\ HasStatus(dmg.before.statuses, "shield")
    /\ dmg.before.shield > 0 /\ dmg.damage > dmg.before.shield
    /\ dmg.absorbed = dmg.before.shield
    /\ dmg.fighter.hp < dmg.before.hp

-----------------------------------------------------------------------------
(* The chat handlers: /start creates a room's battle, /action runs         *)
(* load_battle, submit_action and save_battle under the room's lock.       *)
(* Every statement of action_cmd is a step of its own, so tasks may        *)
(* interleave at least wherever the event loop lets them.  The handlers    *)
(* that take no lock have no await between their load and their save: each *)
(* is one step, taken while every action_cmd task is at an await.          *)

Rooms == {1, 2}
Tasks == {1, 2, 3, 4}
\* the chat and the sender of the update each task handles
TaskRoom == <<1, 1, 2, 1>>
TaskUser == <<1, 2, 1, 3>>
\* what random.Random(None) may start from when /start creates a battle
Entropies == {0, 3}
\* the seeds given to /seed
RoomSeeds == {1}

\* an optional value is a sequence of at most one element
Absent == <<>>

IdleTask == [pc |-> "idle", seen |-> Absent, reply |-> None]

\* nothing returned yet on a battle, and the command that created it
Born(cmd) == [acks |-> 0, reports |-> 0, born |-> cmd]

InitBot ==
    /\ repo = [r \in Rooms |-> Absent]
    /\ db = [r \in Rooms |-> Absent]
    /\ lockHeld = [r \in Rooms |-> 0]
    /\ task = [t \in Tasks |-> IdleTask]
    /\ resolved = [r \in Rooms |-> Born("none")]
    /\ battle = None /\ log = <<>> /\ result = NoResult /\ lastOp = "create"
    /\ acked = NoPending /\ live = 0 /\ drawsOk = TRUE /\ dmg = None

DuelVars == <<battle, log, result, lastOp, acked, live, drawsOk, dmg>>

\* load_battle: the cached object, else the persisted document, else nothing
load_battle(room) ==
    IF repo[room] # Absent THEN repo[room]
    ELSE IF db[room] # Absent THEN <<from_dict(db[room][1])>>
    ELSE Absent

\* every task is suspended: it has not entered the block or awaits the reply
AtAwait == \A t \in Tasks : task[t].pc \in {"idle", "no_battle"}

\* start_cmd: a new battle for the chat, saved at once; explored once a room
StartCmd(room) ==
    /\ AtAwait
    /\ db[room] = Absent
    /\ \E entropy \in Entropies :
          LET b == create_new_battle(room, NoneId, entropy)
          IN  /\ repo' = [repo EXCEPT ![room] = <<b>>]
              /\ db' = [db EXCEPT ![room] = <<to_dict(b)>>]
    /\ resolved' = [resolved EXCEPT ![room] = Born("start")]
    /\ UNCHANGED <<lockHeld, task, DuelVars>>

\* (mutant) the new battle is created without the old battle's seed
ResetUnseeded(old_battle, chat_id, entropy) ==
    [create_new_battle(chat_id, NoneId, entropy)
        EXCEPT !.debug_mode = old_battle.debug_mode]

\* the battle new_cmd creates in place of old_battle
ResetBattle(old_battle, chat_id, entropy) ==
    [create_new_battle(chat_id, old_battle.seed, entropy)
        EXCEPT !.debug_mode = old_battle.debug_mode]

\* new_cmd on a room that has a battle: a new one with the old seed and
\* debug flag, saved at once
NewCmd(room) ==
    /\ AtAwait
    /\ load_battle(room) # Absent
    /\ \E entropy \in Entropies :
          /\ repo' = [repo EXCEPT ![room] =
                         <<ResetBattle(load_battle(room)[1], room, entropy)>>]
          /\ db' = [db EXCEPT ![room] =
                       <<to_dict(ResetBattle(load_battle(room)[1], room, entropy))>>]
    /\ resolved' = [resolved EXCEPT ![room] = Born("new")]
    /\ UNCHANGED <<lockHeld, task, DuelVars>>

\* seed_cmd with an integer argument on a room that has a battle; explored
\* while the battle's debug flag is unset
SeedRoom(room, seed) ==
    /\ AtAwait
    /\ load_battle(room) # Absent
    /\ ~load_battle(room)[1].debug_mode
    /\ LET b == [set_seed(load_battle(room)[1], seed) EXCEPT !.debug_mode = TRUE]
       IN  /\ repo' = [repo EXCEPT ![room] = <<b>>]
           /\ db' = [db EXCEPT ![room] = <<to_dict(b)>>]
    /\ UNCHANGED <<lockHeld, task, resolved, DuelVars>>

\* (mutant) entering the block never waits for its holder
LockFreeAlways(room) == TRUE

\* async with runtime.fight_locks[chat_id]: entered only while nobody holds it
LockFree(room) == lockHeld[room] = 0

\* a room is explored until its battle has resolved MaxBotRounds rounds;
\* a submission that the full room refuses is explored beyond that
Explored(t) ==
    repo[TaskRoom[t]] # Absent =>
        \/ repo[TaskRoom[t]][1].round_no < MaxBotRounds
        \/ RoomFull(repo[TaskRoom[t]][1], TaskUser[t])

Acquire(t) ==
    /\ task[t].pc = "idle"
    /\ LockFree(TaskRoom[t])
    /\ Explored(t)
    /\ lockHeld' = [lockHeld EXCEPT ![TaskRoom[t]] = t]
    /\ task' = [task EXCEPT ![t].pc = "load"]
    /\ UNCHANGED <<repo, db, resolved, DuelVars>>

Load(t) ==
    /\ task[t].pc = "load"
    /\ LET b == load_battle(TaskRoom[t])
       IN  IF b = Absent
           THEN /\ task' = [task EXCEPT ![t].pc = "no_battle"]
                /\ repo' = repo
           ELSE /\ task' = [task EXCEPT ![t].pc = "submit",
                                        ![t].seen = <<to_dict(b[1])>>]
                /\ repo' = [repo EXCEPT ![TaskRoom[t]] = b]
    /\ UNCHANGED <<db, lockHeld, resolved, DuelVars>>

\* (mutant) the early return leaves the lock held
NoBattleKeepsLock(t) ==
    /\ task[t].pc = "no_battle"
    /\ task' = [task EXCEPT ![t] = IdleTask]
    /\ UNCHANGED <<repo, db, lockHeld, resolved, DuelVars>>

\* no battle: the reply is sent and the handler returns, leaving the block
NoBattle(t) ==
    /\ task[t].pc = "no_battle"
    /\ task' = [task EXCEPT ![t] = IdleTask]
    /\ lockHeld' = [lockHeld EXCEPT ![TaskRoom[t]] = 0]
    /\ UNCHANGED <<repo, db, resolved, DuelVars>>

Counted(c, r) ==
    [c EXCEPT !.acks = @ + (IF r.message = "ack" THEN 1 ELSE 0),
              !.reports = @ + (IF r.round_report # None THEN 1 ELSE 0)]

\* submit_action mutates the loaded object, which is the cached one
Submit(t) ==
    /\ task[t].pc = "submit"
    /\ LET r == submit_action(repo[TaskRoom[t]][1], TaskUser[t])
       IN  /\ repo' = [repo EXCEPT ![TaskRoom[t]] = <<r.battle>>]
           /\ resolved' = [resolved EXCEPT
                              ![TaskRoom[t]] = Counted(@, r)]
           /\ task' = [task EXCEPT ![t].pc = "save", ![t].reply = r.message]
    /\ UNCHANGED <<db, lockHeld, DuelVars>>

\* save_battle, then the end of the block
Save(t) ==
    /\ task[t].pc = "save"
    /\ db' = [db EXCEPT ![TaskRoom[t]] = <<to_dict(repo[TaskRoom[t]][1])>>]
    /\ lockHeld' = [lockHeld EXCEPT ![TaskRoom[t]] = 0]
    /\ task' = [task EXCEPT ![t] = IdleTask]
    /\ UNCHANGED <<repo, resolved, DuelVars>>

NextBot ==
    \/ \E room \in Rooms : StartCmd(room)
    \/ \E room \in Rooms : NewCmd(room)
    \/ \E room \in Rooms, seed \in RoomSeeds : SeedRoom(room, seed)
    \/ \E t \in Tasks : Acquire(t)
    \/ \E t \in Tasks : Load(t)
    \/ \E t \in Tasks : NoBattle(t)
    \/ \E t \in Tasks : Submit(t)
    \/ \E t \in Tasks : Save(t)

SpecBot == InitBot /\ [][NextBot]_vars

\* A task that has entered the block runs on: the block's statements are
\* synchronous but for the reply of the no-battle branch, which returns.

SpecBotFair ==
    SpecBot /\ \A t \in Tasks :
        /\ WF_vars(Load(t)) /\ WF_vars(NoBattle(t)) /\ WF_vars(Save(t))
        \* WF_vars(Submit(t)), its enabling condition written out
        /\ ([]<>(task[t].pc # "submit") \/ []<><<Submit(t)>>_vars)

InBlock(t) == task[t].pc # "idle"

\* C5: action submissions of one room never interleave their load, submit
\* and save: at most one is inside the block at a time, each one loads the
\* state the previous one saved, two accepted submissions by the two
\* participants resolve exactly one round, and a room's lock does not keep
\* another room's task out.
C5_RoomSubmissionsSerialized ==
    /\ \A t, u \in Tasks :
          (t # u /\ TaskRoom[t] = TaskRoom[u]) => ~(InBlock(t) /\ InBlock(u))
    /\ \A t \in Tasks :
          task[t].pc = "submit" => task[t].seen = db[TaskRoom[t]]
    /\ \A r \in Rooms :
          lockHeld[r] = 0 =>
              /\ resolved[r].reports = resolved[r].acks \div 2
              /\ db[r] # Absent =>
                    /\ db[r] = <<to_dict(repo[r][1])>>
                    /\ repo[r][1].round_no = resolved[r].reports
    /\ \A t \in Tasks :
          (task[t].pc = "idle" /\ lockHeld[TaskRoom[t]] = 0
             /\ Explored(t))
          => ENABLED Acquire(t)

\* both participants of room 1 were acked and one round came of it, while
\* the other room's task is inside its own block
C5_Witness ==
    /\ resolved[1].acks = 2 /\ resolved[1].reports = 1
    /\ repo[1] # Absent /\ repo[1][1].round_no = 1
    /\ InBlock(3) /\ lockHeld[2] = 3
    /\ \E t \in {1, 2} : task[t].pc = "save"

\* a step that changes a room's cached or persisted document is taken by the
\* task that holds the room's lock and is inside the block
UnderLock ==
    \A r \in Rooms :
        (repo'[r] # repo[r] \/ db'[r] # db[r]) =>
            \E t \in Tasks :
                /\ TaskRoom[t] = r /\ lockHeld[r] = t
                /\ task[t].pc \in {"load", "submit", "save"}

\* C17: every operation that writes a room's battle document or the PRNG
\* state in it (action submission, and the create, reset and seed commands)
\* runs while holding the room's lock.
C17_DocumentOnlyUnderLock == [][UnderLock]_vars

\* b2 is a fresh battle for the room, with the seed and debug flag of b
FreshLike(b, b2, room) ==
    /\ b2.player = NewFighter(PLAYER) /\ b2.ai = NewFighter(AI)
    /\ b2.player.hp = b2.player.max_hp /\ b2.player.shield = 0
    /\ b2.player.statuses = <<>>
    /\ \A k \in SkillKeys : b2.player.cooldowns[k] = 0 /\ b2.ai.cooldowns[k] = 0
    /\ b2.round_no = 0 /\ ~b2.is_over /\ b2.winner = None
    /\ b2.player_a_id = NoneId /\ b2.player_b_id = NoneId
    /\ b2.pending_action = NoPending
    /\ b2.user_id = room
    /\ b2.seed = b.seed /\ b2.debug_mode = b.debug_mode
    /\ b.seed # NoneId =>
          /\ DecodeState(b2.rng_state_b64) = RngSeed(b.seed)
          /\ pick_locked_skill_number(b2, b2.player).tr
                = RngOutputs(RngSeed(b.seed),
                             Len(pick_locked_skill_number(b2, b2.player).tr))
          /\ Len(pick_locked_skill_number(b2, b2.player).tr) = 1

\* C21: the battle a room reset puts in place of the room's battle is fresh
\* (full hit points, no shield, statuses or cooldowns, round 0, not
\* terminal, nobody bound, nothing pending), keeps that battle's seed and
\* debug flag, and draws from the first output of a generator of that seed.
C21_ResetGivesFreshBattle ==
    [](\A r \in Rooms : repo[r] # Absent =>
          \A entropy \in Entropies :
              FreshLike(repo[r][1], ResetBattle(repo[r][1], r, entropy), r))

\* a reset replaced a seeded battle in debug mode, and the new one is in play
C21_Witness ==
    \E r \in Rooms :
        /\ resolved[r].born = "new" /\ repo[r] # Absent
        /\ repo[r][1].seed = 1 /\ repo[r][1].debug_mode
        /\ repo[r][1].round_no = 1 /\ repo[r][1].player_a_id # NoneId

-----------------------------------------------------------------------------
(* Properties of the duel.                                                 *)

Fighter(b, name) == IF name = PLAYER THEN b.player ELSE b.ai
FighterNames == {PLAYER, AI}

\* positions of the events of a type and actor in a log
EventsOf(events, type, actor) ==
    {i \in 1..Len(events) : events[i].type = type /\ events[i].actor = actor}

HasEvent(events, type) == \E i \in 1..Len(events) : events[i].type = type

\* a status of the name is attached with at least the remaining duration
Attached(fighter, name, duration) ==
    \E i \in 1..Len(fighter.statuses) :
        /\ fighter.statuses[i].name = name
        /\ fighter.statuses[i].duration >= duration

\* a battle nobody has joined and that is not over
Fresh(b) ==
    /\ b.player_a_id = NoneId /\ b.player_b_id = NoneId
    /\ b.pending_action = NoPending
    /\ ~b.is_over

FirstOfTwo(b, r1, u1) ==
    /\ r1.round_report = None
    /\ Pending(r1.battle, u1)
    /\ r1.battle.pending_action[u1] = r1.skill_no
    /\ r1.battle.round_no = b.round_no

SecondOfTwo(b, r2) ==
    /\ r2.round_report # None
    /\ r2.battle.round_no = b.round_no + 1

TwoSubmits(b, r1, u1, u2) ==
    FirstOfTwo(b, r1, u1) /\ SecondOfTwo(b, submit_action(r1.battle, u2))

\* C1: from a fresh battle, of two submissions by distinct actors the first
\* returns no report, records the actor's ordinal and leaves round_no alone;
\* the second returns a report and round_no has grown by exactly 1.
C1_SecondSubmitResolves ==
    Fresh(battle) =>
        \A u1 \in Users, u2 \in Users :
            u1 # u2 => TwoSubmits(battle, submit_action(battle, u1), u1, u2)

C1_Witness ==
    /\ lastOp = "submit" /\ result.round_report = "report"
    /\ battle.round_no = 1
    /\ battle.player_a_id # NoneId /\ battle.player_b_id # NoneId

Rejected(b, r, message) ==
    /\ r.message = message
    /\ r.round_report = None
    /\ r.battle = b
    /\ r.tr = <<>>

\* C2: a repeated submission by an actor with a pending entry gets the
\* "already acted" response and changes nothing: the recorded ordinal, every
\* other field of the battle and the generator's token stay as they were.
C2_RepeatIsRejected ==
    \A u \in Users :
        Pending(battle, u) =>
            Rejected(battle, submit_action(battle, u), "already_acted")

C2_Witness ==
    /\ lastOp = "submit" /\ result.message = "already_acted"
    /\ battle.pending_action # NoPending

\* C3: with A and B bound, a submission by any other identity gets the
\* "room full" response and leaves the battle unchanged, in every round.
C3_ThirdIsRejected ==
    \A u \in Users :
        (/\ battle.player_a_id # NoneId /\ battle.player_b_id # NoneId
         /\ u \notin {battle.player_a_id, battle.player_b_id})
        => Rejected(battle, submit_action(battle, u), "room_full")

C3_Witness ==
    /\ lastOp = "submit" /\ result.message = "room_full"
    /\ battle.round_no >= 1

\* the participant whose fighter has the name
ParticipantOf(b, name) ==
    IF name = PLAYER THEN b.player_a_id ELSE b.player_b_id

\* C4: in a round resolved through submit_action, the skill each fighter
\* uses is the one named in its participant's acknowledgement.
C4_AckedSkillIsExecuted ==
    (lastOp = "submit" /\ result.round_report = "report") =>
        \A i \in 1..Len(log) :
            log[i].type = "skill_use" =>
                log[i].detail.skill_key =
                    skill_number_to_key(acked[ParticipantOf(battle, log[i].actor)])

\* C6: the draws a battle consumes through its captured and restored token
\* are those of one uninterrupted generator, and the token always holds
\* that generator's state.
C6_TokenFollowsLiveGenerator ==
    drawsOk /\ DecodeState(battle.rng_state_b64) = live

C6_Witness ==
    /\ lastOp = "submit" /\ result.round_report = "report"
    /\ battle.round_no >= 2
    /\ HasEvent(log, "skill_use")

AlreadyOver(b, r) ==
    /\ r.battle = b
    /\ r.events = <<Event("already_over", None, None, <<>>)>>
    /\ r.tr = <<>>

\* C7: advance_round on a terminal battle returns a log holding only the
\* already_over event and changes nothing.
C7_TerminalRoundIsNoOp ==
    battle.is_over =>
        \A fp \in ForcedKeys, fa \in ForcedKeys :
            AlreadyOver(battle, advance_round(battle, fp, fa))

C7_Witness ==
    /\ lastOp = "advance" /\ battle.is_over
    /\ Len(log) = 1 /\ log[1].type = "already_over"

\* every skill the fighter uses is the basic attack, announced beforehand by
\* a forced_basic_attack event of that fighter
UsesForcedBasic(events, name) ==
    \A i \in EventsOf(events, "skill_use", name) :
        /\ events[i].detail.skill_key = BASIC_ATTACK_KEY
        /\ \E j \in EventsOf(events, "forced_basic_attack", name) : j < i

\* the skills forced on the two fighters: any key, known or not, for one of
\* them while the other chooses for itself, and the pairs of ForcedPairs
ForcedChoices ==
    (ForcedKeys \X {None}) \cup ({None} \X ForcedKeys) \cup ForcedPairs

SilenceRule(b, duration) ==
    \A name \in FighterNames :
        Attached(Fighter(b, name), "silence", duration) =>
            \A f \in ForcedChoices :
                UsesForcedBasic(advance_round(b, f[1], f[2]).events, name)

\* C8 as claimed: a fighter with a Silence attached when advance_round is
\* called uses the basic attack, after a forced_basic_attack event.
C8_SilencedUsesBasic ==
    ~battle.is_over => SilenceRule(battle, 1)

\* C8 as amended: a fighter whose Silence has at least 2 turns left when
\* advance_round is called (so that it outlasts the turn-start tick) uses
\* the basic attack, whatever was forced, after a forced_basic_attack event.
C8_LastingSilenceUsesBasic ==
    ~battle.is_over => SilenceRule(battle, 2)

\* the player acts first, so a Silence that forces it was attached at the call
C8_Witness ==
    /\ lastOp \in {"submit", "advance"}
    /\ EventsOf(log, "forced_basic_attack", PLAYER) # {}
    /\ EventsOf(log, "skill_use", PLAYER) # {}

\* neither action ended the battle: the ai acted, and a battle_over event,
\* if any, follows a dot event
ReachedDotPhase(events) ==
    /\ EventsOf(events, "skill_use", AI) # {}
    /\ (HasEvent(events, "battle_over") => HasEvent(events, "dot"))

OneDotAfterActions(events, name, magnitude) ==
    /\ Cardinality(EventsOf(events, "dot", name)) = 1
    /\ \A i \in EventsOf(events, "dot", name) :
          /\ events[i].detail.dot = magnitude
          /\ \A j \in 1..Len(events) : events[j].type = "skill_use" => j < i

DotRule(events, name, magnitude) ==
    ReachedDotPhase(events) => OneDotAfterActions(events, name, magnitude)

PoisonRule(b, duration) ==
    \A name \in FighterNames :
        \A k \in 1..Len(Fighter(b, name).statuses) :
            (/\ Fighter(b, name).statuses[k].name = "poison"
             /\ Fighter(b, name).statuses[k].duration >= duration)
            => \A f \in ForcedChoices :
                  DotRule(advance_round(b, f[1], f[2]).events, name,
                          Fighter(b, name).statuses[k].value)

\* C10 as claimed: a fighter with a Poison of magnitude M attached when
\* advance_round is called gets, in a round no action ends, exactly one dot
\* event of raw amount M, after both skill_use events.
C10_PoisonedGetsOneDot ==
    ~battle.is_over => PoisonRule(battle, 1)

\* C10 as amended: the same for a Poison with at least 2 turns left at the
\* call, which outlasts the turn-start tick.
C10_LastingPoisonGetsOneDot ==
    ~battle.is_over => PoisonRule(battle, 2)

\* a dot event for a fighter on whom no poison was applied in this round
C10_Witness ==
    /\ lastOp \in {"submit", "advance"}
    /\ \E name \in FighterNames :
          /\ EventsOf(log, "dot", name) # {}
          /\ \A i \in 1..Len(log) :
                log[i].type = "status_apply" => log[i].target # name

-----------------------------------------------------------------------------
(* Cooldowns, the winner, the terminal state.                              *)

\* the fighter has a skill_use event for the key in the log
Used(events, name, k) ==
    \E i \in EventsOf(events, "skill_use", name) : events[i].detail.skill_key = k

\* across a step that resolved a round
CooldownsOfRound(name, k) ==
    IF Used(log', name, k) /\ k # BASIC_ATTACK_KEY /\ skills[k].cd > 0
    THEN Fighter(battle', name).cooldowns[k] = skills[k].cd
    ELSE Fighter(battle', name).cooldowns[k] =
             Max(0, Fighter(battle, name).cooldowns[k] - 1)

CooldownStep ==
    /\ \A name \in FighterNames :
          Fighter(battle', name).cooldowns[BASIC_ATTACK_KEY] = 0
    /\ battle'.round_no = battle.round_no + 1 =>
          \A name \in FighterNames, k \in SkillKeys : CooldownsOfRound(name, k)
    /\ battle'.round_no = battle.round_no =>
          \A name \in FighterNames :
              Fighter(battle', name).cooldowns = Fighter(battle, name).cooldowns

\* C11: in a resolved round every cooldown goes down by exactly 1, not below
\* 0, except that a non-basic skill of cooldown C > 0 that the fighter used is
\* at C afterwards; the basic attack's cooldown is always 0; a skill that was
\* not used is not reset; outside a resolution cooldowns do not change.
C11_CooldownsTickOncePerRound == [][CooldownStep]_vars

\* a used skill stands at its configured cooldown, another one of the same
\* fighter is part-way down, and Silence kept a third from being used
C11_Witness ==
    /\ lastOp \in {"submit", "advance"}
    /\ \E name \in FighterNames, k \in SkillKeys, j \in SkillKeys :
          /\ Used(log, name, k) /\ skills[k].cd > 0
          /\ Fighter(battle, name).cooldowns[k] = skills[k].cd
          /\ Fighter(battle, name).cooldowns[j] > 0
          /\ Fighter(battle, name).cooldowns[j] < skills[j].cd
    /\ \E name \in FighterNames :
          EventsOf(log, "forced_basic_attack", name) # {}

HpVerdict(b) ==
    \/ b.player.hp <= 0 /\ b.ai.hp <= 0 /\ b.winner = DRAW
    \/ b.player.hp > 0 /\ b.ai.hp <= 0 /\ b.winner = PLAYER
    \/ b.player.hp <= 0 /\ b.ai.hp > 0 /\ b.winner = AI

\* what a win check does to a battle whose fighters have these hit points
CheckedAt(b, php, ahp) ==
    _check_winner([b EXCEPT !.player.hp = php, !.ai.hp = ahp], <<>>)

VerdictAt(b, php, ahp) ==
    IF php > 0 /\ ahp > 0
    THEN /\ ~CheckedAt(b, php, ahp).over
         /\ CheckedAt(b, php, ahp).battle.is_over = b.is_over
         /\ CheckedAt(b, php, ahp).battle.winner = b.winner
    ELSE /\ CheckedAt(b, php, ahp).over
         /\ CheckedAt(b, php, ahp).battle.is_over
         /\ HpVerdict(CheckedAt(b, php, ahp).battle)

\* C12: a terminal battle's winner matches the hit points (both down: draw;
\* only the ai down: the player; only the player down: the ai), a battle is
\* terminal only if a fighter is down, and a win check on the battle with
\* either, both or no fighter down records exactly that.
C12_WinnerMatchesHitPoints ==
    /\ battle.is_over => HpVerdict(battle)
    /\ ~battle.is_over =>
          /\ battle.winner = None
          /\ battle.player.hp > 0 /\ battle.ai.hp > 0
          /\ \A php \in {0, battle.player.hp}, ahp \in {0, battle.ai.hp} :
                VerdictAt(battle, php, ahp)

C12_Witness ==
    /\ battle.is_over /\ HasEvent(log, "battle_over")
    /\ battle.ai.hp = 0 /\ battle.player.hp > 0 /\ battle.winner = PLAYER

\* the terminal flag, the winner, the fighters and the round counter agree
Frozen(b, b2) ==
    /\ b2.is_over = b.is_over /\ b2.winner = b.winner
    /\ b2.player = b.player /\ b2.ai = b.ai
    /\ b2.round_no = b.round_no

\* C13: on a terminal battle no submit_action, advance_round, set_seed or
\* save/load changes the terminal flag, the winner, the fighters' hit points,
\* shields, statuses and cooldowns, or the round counter.
C13_TerminalIsFrozen ==
    battle.is_over =>
        /\ \A u \in Users : Frozen(battle, submit_action(battle, u).battle)
        /\ \A f \in ForcedChoices :
              Frozen(battle, advance_round(battle, f[1], f[2]).battle)
        /\ \A seed \in Seeds : Frozen(battle, set_seed(battle, seed))
        /\ Frozen(battle, from_dict(to_dict(battle)))

\* both participants submitted on a terminal battle and the resolver ran
C13_Witness ==
    /\ battle.is_over /\ battle.winner # None
    /\ lastOp = "submit" /\ result.round_report = "report"
    /\ log = <<Event("already_over", None, None, <<>>)>>
    /\ battle.pending_action = NoPending

-----------------------------------------------------------------------------
(* The round counter, the bindings, the pending map.                       *)

RoundNoStep ==
    /\ battle'.round_no \in {battle.round_no, battle.round_no + 1}
    /\ battle'.round_no = battle.round_no + 1 =>
          /\ ~battle.is_over
          /\ lastOp' \in {"submit", "advance"}
          /\ lastOp' = "submit" => result'.round_report = "report"
          /\ log'[1] = Event("round_start", None, None,
                             [round |-> battle'.round_no])
    /\ (lastOp' = "advance" /\ ~battle.is_over) =>
          battle'.round_no = battle.round_no + 1
    /\ (lastOp' = "submit" /\ result'.round_report = "report"
          /\ ~battle.is_over) =>
          battle'.round_no = battle.round_no + 1
    /\ (lastOp' = "submit" /\ result'.round_report = None) =>
          battle'.round_no = battle.round_no
    /\ lastOp' = "set_seed" => battle'.round_no = battle.round_no
    /\ battle.is_over => battle'.round_no = battle.round_no

\* C14: the round counter changes only in the resolution of a non-terminal
\* battle, then by exactly +1, the round_start event carrying the new
\* number; rejected and first-of-two submissions, set_seed and operations on
\* a terminal battle leave it unchanged.
C14_RoundCounterStepsByOne == [][RoundNoStep]_vars

\* a second round was resolved by a submission
C14_Witness ==
    /\ battle.round_no = 2
    /\ lastOp = "submit" /\ result.round_report = "report"
    /\ log # <<>> /\ log[1].type = "round_start" /\ log[1].detail.round = 2

Bindings(b) ==
    /\ b.player_b_id # NoneId => b.player_a_id # NoneId
    /\ b.player_a_id # NoneId => b.player_a_id # b.player_b_id
    /\ DOMAIN b.pending_action \subseteq
          {b.player_a_id, b.player_b_id} \ {NoneId}

BindingStep ==
    /\ battle.player_a_id # NoneId => battle'.player_a_id = battle.player_a_id
    /\ battle.player_b_id # NoneId => battle'.player_b_id = battle.player_b_id

\* C15: B is bound only if A is, A and B are distinct, every key of the
\* pending map is a bound identity, and no step replaces or unbinds a bound
\* identity (the two slots admit at most two identities).
C15_BindingsAreStable == []Bindings(battle) /\ [][BindingStep]_vars

\* a third identity was turned away while one participant is pending
C15_Witness ==
    /\ battle.player_a_id # NoneId /\ battle.player_b_id # NoneId
    /\ lastOp = "submit" /\ result.message = "room_full"
    /\ Cardinality(DOMAIN battle.pending_action) = 1

\* across a submit_action that was acknowledged
PendingStep ==
    (lastOp' = "submit" /\ result'.message = "ack") =>
        IF Cardinality(DOMAIN battle.pending_action) = 1
             /\ battle'.player_b_id # NoneId
        THEN /\ result'.round_report = "report"
             /\ log' # <<>>
             /\ battle'.pending_action = NoPending
        ELSE /\ result'.round_report = None
             /\ log' = <<>>
             /\ Cardinality(DOMAIN battle'.pending_action) = 1
             /\ battle'.round_no = battle.round_no

\* C16: the resolver runs in the submit_action call that records the second
\* of A's and B's pending entries and in no other, and the pending map is
\* empty when that call returns; in every state the pending map holds at
\* most one entry.
C16_ResolvedOncePerPair ==
    /\ [](Cardinality(DOMAIN battle.pending_action) <= 1)
    /\ [][PendingStep]_vars

\* the second entry of a later round was recorded and the round resolved
C16_Witness ==
    /\ lastOp = "submit" /\ result.round_report = "report"
    /\ battle.pending_action = NoPending
    /\ battle.round_no >= 2 /\ HasEvent(log, "skill_use")
    /\ DOMAIN acked = {battle.player_a_id, battle.player_b_id}

-----------------------------------------------------------------------------
(* Re-seeding, hit points and shields, statuses.                           *)

\* the outputs are the first ones of a generator in the state
DrawsFrom(tr, state) == tr = RngOutputs(state, Len(tr))

\* b2 is b re-seeded: only the seed and the token differ, and the draws of
\* a preview pick, of a round, and of a round after a pick are the first
\* draws of random.Random(seed)
Reseeded(b, b2, seed) ==
    /\ b2.seed = seed
    /\ b2 = [b EXCEPT !.seed = seed, !.rng_state_b64 = b2.rng_state_b64]
    /\ DrawsFrom(pick_locked_skill_number(b2, b2.player).tr, RngSeed(seed))
    /\ DrawsFrom(advance_round(b2, None, None).tr, RngSeed(seed))
    /\ DrawsFrom(pick_locked_skill_number(b2, b2.ai).tr
                 \o advance_round(pick_locked_skill_number(b2, b2.ai).battle,
                                  None, None).tr,
                 RngSeed(seed))

\* C18: set_seed(battle, s) changes only the seed and the PRNG token, and
\* the draws consumed afterwards are those of a fresh generator seeded with
\* s, from its first draw, whatever was drawn before.
C18_SetSeedRestartsStream ==
    [](\A seed \in Seeds : Reseeded(battle, set_seed(battle, seed), seed))

\* the seed was set after a round had consumed draws, with an entry pending
C18_Witness ==
    /\ lastOp = "set_seed" /\ battle.round_no >= 1 /\ ~battle.is_over
    /\ battle.pending_action # NoPending
    /\ battle.player_a_id # NoneId

InRange(fighter) ==
    /\ 0 <= fighter.hp /\ fighter.hp <= fighter.max_hp
    /\ fighter.shield >= 0

\* C19: every fighter's hit points are within 0..max_hp and its shield is
\* not negative, in every reachable state.
C19_HitPointsAndShieldInRange ==
    InRange(battle.player) /\ InRange(battle.ai)

\* a fighter is down, the other one holds shield points a hit has reduced
C19_Witness ==
    /\ battle.is_over
    /\ \E name \in FighterNames, other \in FighterNames :
          /\ Fighter(battle, name).hp = 0
          /\ Fighter(battle, other).hp > 0
          /\ Fighter(battle, other).shield > 0
          /\ Fighter(battle, other).shield < skills["guard"].shield_value

OnePerName(fighter) ==
    \A i, j \in 1..Len(fighter.statuses) :
        fighter.statuses[i].name = fighter.statuses[j].name => i = j

StatusNames == {"poison", "silence", "shield", "burn"}

\* f2 is f after _apply_status: an attached instance of the name is replaced
\* where it stands, by exactly the new values; otherwise one is appended
Replaced(f, f2, name, duration, value) ==
    /\ OnePerName(f2)
    /\ f2 = [f EXCEPT !.statuses = f2.statuses]
    /\ IF HasStatus(f.statuses, name)
       THEN /\ Len(f2.statuses) = Len(f.statuses)
            /\ \A i \in 1..Len(f.statuses) :
                  f2.statuses[i] =
                      IF f.statuses[i].name = name
                      THEN StatusEffect(name, duration, value)
                      ELSE f.statuses[i]
       ELSE f2.statuses = Append(f.statuses, StatusEffect(name, duration, value))

\* C20: a fighter carries at most one status per name in every reachable
\* state, and applying a status whose name is attached replaces that
\* instance's duration and magnitude, in place, without adding to them.
C20_OneStatusPerName ==
    [](\A who \in FighterNames :
        /\ OnePerName(Fighter(battle, who))
        /\ \A name \in StatusNames, duration \in 1..3, value \in 0..2 :
              Replaced(Fighter(battle, who),
                       _apply_status(Fighter(battle, who), name, duration, value),
                       name, duration, value))

\* a fighter carries two statuses, the first of which is about to run out
C20_Witness ==
    \E who \in FighterNames :
        /\ Len(Fighter(battle, who).statuses) >= 2
        /\ Fighter(battle, who).statuses[1].duration = 1
        /\ Fighter(battle, who).statuses[2].duration = 2

-----------------------------------------------------------------------------
(* The order of the events of a round.                                     *)

ActionEvents ==
    {"forced_basic_attack", "skill_use", "damage", "status_apply", "miss",
     "shield_gain"}

\* the place of an event in the program of a round
Rank(e) ==
    IF e.type = "round_start" THEN 0
    ELSE IF e.type = "shield_expire" THEN (IF e.actor = PLAYER THEN 1 ELSE 2)
    ELSE IF e.type \in ActionEvents THEN (IF e.actor = PLAYER THEN 3 ELSE 5)
    ELSE IF e.type = "dot" THEN (IF e.actor = PLAYER THEN 7 ELSE 8)
    ELSE IF e.type = "battle_over" THEN 9
    ELSE 10

\* within one action: the override notice, the skill, then its outcome
ActionInOrder(events, name) ==
    \A i \in 1..Len(events) :
        (events[i].type \in ActionEvents /\ events[i].actor = name) =>
            \A j \in EventsOf(events, "skill_use", name) :
                IF events[i].type = "forced_basic_attack" THEN i < j ELSE j <= i

\* the damage event of the fighter's action took the last of hp hit points
Felled(events, name, hp) ==
    \E i \in EventsOf(events, "damage", name) : events[i].detail.hp_loss >= hp

InRoundOrder(b, events, b2) ==
    /\ events # <<>> /\ Rank(events[1]) = 0
    /\ \A i, j \in 1..Len(events) : i < j =>
          /\ Rank(events[i]) <= Rank(events[j])
          /\ Rank(events[i]) \in {0, 7, 8, 9} => Rank(events[i]) < Rank(events[j])
    /\ \A i \in 1..Len(events) : Rank(events[i]) < 10
    /\ Cardinality(EventsOf(events, "skill_use", PLAYER)) = 1
    /\ Cardinality(EventsOf(events, "skill_use", AI)) <= 1
    /\ \A name \in FighterNames : ActionInOrder(events, name)
    /\ HasEvent(events, "battle_over") <=> b2.is_over
    \* the check after the player's action
    /\ IF Felled(events, PLAYER, b.ai.hp)
       THEN /\ events[Len(events)].type = "battle_over"
            /\ Rank(events[Len(events) - 1]) = 3
       ELSE /\ Cardinality(EventsOf(events, "skill_use", AI)) = 1
            \* the check after the ai's action
            /\ IF Felled(events, AI, b.player.hp)
               THEN /\ events[Len(events)].type = "battle_over"
                    /\ Rank(events[Len(events) - 1]) = 5
               ELSE HasEvent(events, "battle_over") => HasEvent(events, "dot")

RoundOrderStep ==
    battle'.round_no = battle.round_no + 1 => InRoundOrder(battle, log', battle')

\* C22: the events of a resolved round come in the order round start,
\* turn-start ticks of the player then of the ai, the player's action, the
\* ai's action, the damage over time of the player then of the ai; a
\* battle_over event is the last one; when the player's action ends the
\* battle the ai does not act and there is no damage over time, and when the
\* ai's action ends it there is no damage over time.
C22_RoundEventsInOrder == [][RoundOrderStep]_vars

\* a round with both actions and damage over time, ended by the final check
C22_Witness ==
    /\ lastOp \in {"submit", "advance"}
    /\ HasEvent(log, "dot")
    /\ log # <<>> /\ log[Len(log)].type = "battle_over"
    /\ EventsOf(log, "skill_use", AI) # {}

-----------------------------------------------------------------------------
(* The skill a fighter uses.                                               *)

Other(name) == IF name = PLAYER THEN AI ELSE PLAYER

\* the non-basic skills the fighter has off cooldown
OffCooldown(fighter) ==
    {k \in SkillKeys \ {BASIC_ATTACK_KEY} : fighter.cooldowns[k] = 0}

\* the outputs a skill's execution draws
ExecDraws(k) == IF skills[k].type = "add_shield" THEN 0 ELSE 1

\* the skill used is k, after n draws for its selection
Precedence(fighter, forced_skill_key, k, n, events) ==
    IF \E i \in 1..Len(fighter.statuses) : fighter.statuses[i].name = "silence"
    THEN /\ k = BASIC_ATTACK_KEY /\ n = 0
         /\ events[1].type = "forced_basic_attack"
    ELSE /\ events[1].type = "skill_use"
         /\ IF forced_skill_key \in SkillKeys
                /\ fighter.cooldowns[forced_skill_key] = 0
            THEN k = forced_skill_key /\ n = 0
            ELSE IF OffCooldown(fighter) = {}
                 THEN k = BASIC_ATTACK_KEY /\ n = 0
                 ELSE k \in OffCooldown(fighter) /\ n = 1

ActsByPrecedence(fighter, forced_skill_key, act) ==
    /\ Cardinality(EventsOf(act.events, "skill_use", fighter.name)) = 1
    /\ \A i \in EventsOf(act.events, "skill_use", fighter.name) :
          /\ Precedence(fighter, forced_skill_key, act.events[i].detail.skill_key,
                        Len(act.rng.tr) - ExecDraws(act.events[i].detail.skill_key),
                        act.events)
          /\ act.events[i].detail.skill_key # BASIC_ATTACK_KEY =>
                fighter.cooldowns[act.events[i].detail.skill_key] = 0

\* the random selection reaches every candidate
Weighted(fighter) ==
    \A k \in OffCooldown(fighter) :
        \E u \in RngStates : Choices(Candidates(fighter), u) = k

\* either fighter acting on b with the battle's generator, whatever is forced
SkillRule(b) ==
    \A name \in FighterNames :
        /\ Weighted(Fighter(b, name))
        /\ \A forced_skill_key \in ForcedKeys :
              ActsByPrecedence(Fighter(b, name), forced_skill_key,
                  _take_action(Fighter(b, name), Fighter(b, Other(name)),
                               [s |-> DecodeState(b.rng_state_b64), tr |-> <<>>],
                               <<>>, forced_skill_key))

\* across a resolved round, a non-basic skill that was used had at most the
\* one turn of cooldown left that the turn-start tick removes
OffCooldownStep ==
    battle'.round_no = battle.round_no + 1 =>
        \A name \in FighterNames, k \in SkillKeys \ {BASIC_ATTACK_KEY} :
            Used(log', name, k) => Fighter(battle, name).cooldowns[k] <= 1

\* C23: a fighter uses the basic attack when a status overrides its choice;
\* otherwise the forced skill when that is a known skill off cooldown (the
\* basic attack always is); otherwise a skill drawn among its non-basic
\* skills off cooldown, or the basic attack, without a draw, when there is
\* none.  So a non-basic skill is never used while on cooldown.
C23_SkillPrecedence ==
    [](~battle.is_over => SkillRule(battle)) /\ [][OffCooldownStep]_vars

\* a fighter used a non-basic skill while another of its skills was part-way
\* down its cooldown, and its opponent was overridden in the same round
C23_Witness ==
    /\ lastOp \in {"submit", "advance"}
    /\ \E name \in FighterNames, k \in SkillKeys, j \in SkillKeys :
          /\ Used(log, name, k) /\ k # BASIC_ATTACK_KEY /\ j # k
          /\ Fighter(battle, name).cooldowns[j] > 0
          /\ EventsOf(log, "forced_basic_attack", Other(name)) # {}

-----------------------------------------------------------------------------
(* Statuses at the start of a turn.                                        *)

\* every status with one turn less
Decremented(statuses) ==
    [i \in 1..Len(statuses) |-> [statuses[i] EXCEPT !.duration = @ - 1]]

\* a Shield status that the coming tick brings to 0
ShieldRunsOut(fighter) ==
    \E i \in 1..Len(fighter.statuses) :
        fighter.statuses[i].name = "shield" /\ fighter.statuses[i].duration <= 1

\* f2 and events are what _on_turn_start makes of f
Ticked(f, f2, events) ==
    /\ f2.statuses = SelectSeq(Decremented(f.statuses), LAMBDA st : st.duration > 0)
    /\ f2.shield = IF ShieldRunsOut(f) THEN 0 ELSE f.shield
    /\ f2.hp = f.hp
    /\ events = IF ShieldRunsOut(f) /\ f.shield > 0
                THEN <<Event("shield_expire", f.name, None, <<>>)>> ELSE <<>>
    /\ f2.shield > 0 => HasStatus(f2.statuses, "shield")

\* the round's events attach the status to the fighter anew
Reapplied(events, name, status) ==
    \E i \in 1..Len(events) :
        \/ /\ events[i].type = "status_apply" /\ events[i].target = name
           /\ events[i].detail.status = status
        \/ /\ events[i].type = "shield_gain" /\ events[i].actor = name
           /\ status = "shield"

\* across a resolved round a status that is not attached anew has one turn
\* less, and is gone when that leaves none
TickStep ==
    battle'.round_no = battle.round_no + 1 =>
        \A name \in FighterNames, status \in StatusNames :
            ~Reapplied(log', name, status) =>
                /\ \A d \in 2..3 :
                      Attached(Fighter(battle, name), status, d)
                          => Attached(Fighter(battle', name), status, d - 1)
                /\ \A d \in 1..3 :
                      ~Attached(Fighter(battle, name), status, d + 1)
                          => ~Attached(Fighter(battle', name), status, d)

\* C24: the start of a turn takes one turn off every status and keeps, in
\* order, those with turns left; a Shield that reaches 0 is removed and the
\* shield points are set to 0 (with a shield_expire event when there were
\* any), so that shield points are left only together with a Shield status.
C24_StatusesTickAtTurnStart ==
    [](\A name \in FighterNames :
          Ticked(Fighter(battle, name),
                 _on_turn_start(Fighter(battle, name), <<>>).fighter,
                 _on_turn_start(Fighter(battle, name), <<>>).events))
    /\ [][TickStep]_vars

\* a Shield ran out in the last round with points left, while another status
\* of the same fighter went on with a turn less
C24_Witness ==
    /\ lastOp \in {"submit", "advance"}
    /\ \E name \in FighterNames :
          /\ EventsOf(log, "shield_expire", name) # {}
          /\ Fighter(battle, name).shield = 0
          /\ ~HasStatus(Fighter(battle, name).statuses, "shield")
          /\ Fighter(battle, name).statuses # <<>>

-----------------------------------------------------------------------------
(* The room lock is released.                                              *)

\* the task is about to leave the block with the reply
Leaving(t, reply) ==
    \/ task[t].pc = "no_battle" /\ reply = "no_battle"
    \/ task[t].pc = "save" /\ task[t].reply = reply

\* C25: a room's lock, once taken by an action submission, is released
\* again, whether the submission finds no battle, is refused because the
\* room is full or because the caller has already acted, or is accepted: no
\* task holds the lock for ever, and the lock of every room is free again
\* and again.
C25_LockIsReleased ==
    /\ \A t \in Tasks : []<>(lockHeld[TaskRoom[t]] # t)
    /\ \A r \in Rooms : []<>(lockHeld[r] = 0)

\* a submission refused because the room is full holds the lock of room 1
\* while another one, in room 2, is at its no-battle reply
C25_Witness ==
    /\ \E t \in Tasks : lockHeld[1] = t /\ Leaving(t, "room_full")
    /\ \E t \in Tasks : lockHeld[2] = t /\ Leaving(t, "no_battle")

-----------------------------------------------------------------------------
(* What _apply_damage reports.                                             *)

\* C26 as claimed: whatever the damage, the shield goes down by the absorbed
\* amount reported, the hit points go down by the hp_loss reported, and the
\* two reported amounts add up to the damage.
C26_ReportMatchesChange ==
    dmg.stage = "done" =>
        /\ dmg.before.shield - dmg.fighter.shield = dmg.absorbed
        /\ dmg.before.hp - dmg.fighter.hp = dmg.hp_loss
        /\ dmg.absorbed + dmg.hp_loss = dmg.damage

-----------------------------------------------------------------------------
(* How long a Silence lasts.                                               *)

\* the actions of the fighter that the events show overridden
Overrides(events, name) ==
    Cardinality(EventsOf(events, "forced_basic_attack", name))

\* the events attach a Silence to the fighter
Silenced(events, name) ==
    \E i \in 1..Len(events) :
        /\ events[i].type = "status_apply" /\ events[i].target = name
        /\ events[i].detail.status = "silence"

Acts(events, name) == EventsOf(events, "skill_use", name) # {}

\* r1 is a round in which the fighter, free of Silence before it, is
\* silenced, r2 and r3 the two rounds after it, in which the fighter acts
SilencedFor(b, r1, r2, r3, name, count) ==
    (/\ ~HasStatus(Fighter(b, name).statuses, "silence")
     /\ Silenced(r1.events, name)
     /\ Acts(r2.events, name) /\ Acts(r3.events, name))
    => Overrides(r1.events, name) + Overrides(r2.events, name)
         + Overrides(r3.events, name) = count

SilenceAfter(b, r1, r2, name, count) ==
    SilencedFor(b, r1, r2, advance_round(r2.battle, None, None), name, count)

SilenceFrom(b, r1, name, count) ==
    SilenceAfter(b, r1, advance_round(r1.battle, None, None), name, count)

\* C27 as claimed: a Silence of configured duration D overrides D of the
\* target's actions from its application on, whether the player, who acts
\* first, applies it to the ai or the ai applies it to the player.
C27_SilenceLastsItsDuration ==
    ~battle.is_over =>
        \A name \in FighterNames :
            SilenceFrom(battle,
                        IF name = AI THEN advance_round(battle, "silence", None)
                        ELSE advance_round(battle, None, "silence"),
                        name, skills["silence"].duration)

-----------------------------------------------------------------------------
(* Rounds resolved by submit_action use the picks that were previewed.     *)

\* the fighter of a participant, and the pick recorded for it when the
\* submission of user_id, answered by r, resolves the round
FighterOf(b, user_id) == IF user_id = b.player_a_id THEN PLAYER ELSE AI

ForcedKey(b, r, user_id, name) ==
    skill_number_to_key(
        IF FighterOf(b, user_id) = name THEN r.skill_no
        ELSE b.pending_action[IF name = PLAYER THEN b.player_a_id
                              ELSE b.player_b_id])

\* the outputs drawn by the executions of the skills used
RECURSIVE RollsOf(_, _)
RollsOf(events, i) ==
    IF i = 0 THEN 0
    ELSE RollsOf(events, i - 1)
         + (IF events[i].type = "skill_use"
            THEN ExecDraws(events[i].detail.skill_key) ELSE 0)

\* the forced skill of the fighter is off cooldown, and is the skill used
\* unless a status overrides it
ForcedIsUsed(b, events, name, k) ==
    /\ k \in SkillKeys
    /\ Fighter(b, name).cooldowns[k] = 0
    /\ \A i \in EventsOf(events, "skill_use", name) :
          \/ events[i].detail.skill_key = k
          \/ /\ events[i].detail.skill_key = BASIC_ATTACK_KEY
             /\ EventsOf(events, "forced_basic_attack", name) # {}

\* b is the battle before the submission of user_id, r its result
ResolvedAsPicked(b, r, user_id) ==
    r.round_report # None =>
        /\ \A name \in FighterNames :
              ForcedIsUsed(b, r.events, name, ForcedKey(b, r, user_id, name))
        /\ Len(r.tr) = RollsOf(r.events, Len(r.events))
                         + (IF OffCooldown(Fighter(b, FighterOf(b, user_id))) = {}
                            THEN 0 ELSE 1)

\* C28: when a submission resolves the round, the skill recorded for each
\* fighter is off cooldown, so it is the skill the fighter uses unless a
\* status overrides it, and the resolution draws nothing but the rolls of
\* the skills executed (after the one draw of the submission's own pick).
C28_ResolutionUsesThePicks ==
    [](\A u \in Callers :
          ResolvedAsPicked(Bind(battle, u), submit_action(battle, u), u))

\* a second round resolved by a submission, with skills of the first round
\* still on cooldown on both sides
C28_Witness ==
    /\ lastOp = "submit" /\ result.round_report # None
    /\ battle.round_no >= 2
    /\ \A name \in FighterNames :
          \E k, j \in SkillKeys :
              /\ k # j /\ Fighter(battle, name).cooldowns[k] > 0
              /\ Fighter(battle, name).cooldowns[j] > 0

-----------------------------------------------------------------------------
(* Shield points and the Shield status.                                    *)

\* C29: in every state reached from a new battle by submit_action and
\* advance_round, a fighter that has shield points has a Shield status.
C29_ShieldPointsHaveStatus ==
    [](\A name \in FighterNames :
          Fighter(battle, name).shield > 0
              => HasStatus(Fighter(battle, name).statuses, "shield"))

\* a shield that a hit has partly used up, in the last turn of its status
C29_Witness ==
    \E name \in FighterNames :
        /\ Fighter(battle, name).shield > 0
        /\ Fighter(battle, name).shield < skills["guard"].shield_value
        /\ \E i \in 1..Len(Fighter(battle, name).statuses) :
              /\ Fighter(battle, name).statuses[i].name = "shield"
              /\ Fighter(battle, name).statuses[i].duration = 1

-----------------------------------------------------------------------------
(* Which win check can record which winner.                                *)

\* the winner named by the battle_over events
Declared(events, winner) ==
    \A i \in 1..Len(events) :
        events[i].type = "battle_over" => events[i].detail.winner = winner

\* events of a round that ended the battle in b2: without an action of the
\* ai the check after the player's action ended it, without damage over
\* time the check after the ai's action did, otherwise the final one
VerdictByCheck(events, b2) ==
    /\ Declared(events, b2.winner)
    /\ ~Acts(events, AI) => b2.winner = PLAYER /\ b2.player.hp > 0
    /\ (Acts(events, AI) /\ ~HasEvent(events, "dot")) =>
          b2.winner = AI /\ b2.ai.hp > 0
    /\ b2.winner = DRAW =>
          /\ Acts(events, AI) /\ HasEvent(events, "dot")
          /\ events[Len(events) - 1].type = "dot"
          /\ b2.player.hp = 0 /\ b2.ai.hp = 0

WinCheckStep ==
    (battle'.round_no = battle.round_no + 1 /\ battle'.is_over)
        => VerdictByCheck(log', battle')

\* the attacker's hit points after its action are those before it
OwnHpKept(b, name, forced_skill_key) ==
    _take_action(Fighter(b, name), Fighter(b, Other(name)),
                 [s |-> DecodeState(b.rng_state_b64), tr |-> <<>>], <<>>,
                 forced_skill_key).attacker.hp = Fighter(b, name).hp

\* C30: a round ended by the check after the player's action is won by the
\* player, one ended by the check after the ai's action by the ai, and a
\* draw is recorded only by the final check, after damage over time; no
\* action lowers the hit points of the fighter that takes it.
C30_DrawOnlyAfterDot ==
    /\ [][WinCheckStep]_vars
    /\ [](~battle.is_over =>
            \A name \in FighterNames, forced_skill_key \in ForcedKeys :
                OwnHpKept(battle, name, forced_skill_key))

\* a draw: the damage over time of the round took the last hit points of both
C30_Witness ==
    /\ lastOp \in {"submit", "advance"}
    /\ battle.is_over /\ battle.winner = DRAW
    /\ EventsOf(log, "dot", PLAYER) # {} /\ EventsOf(log, "dot", AI) # {}

=============================================================================
